---- MODULE Spec2Model ----
(***************************************************************************)
(* HyperLogLog cardinality estimator (package hyperloglog).                *)
(*                                                                         *)
(* A uint32 is modelled as the set of the positions of its set bits        *)
(* (LSB 0), so that shifts, masks and wrap-around keep their 32-bit width. *)
(* A []uint8 is modelled by its length and its non-zero bytes.  Slices     *)
(* point into a heap of buffers, so that NewReg's sharing of the passed    *)
(* array and gob's reuse of a destination slice are visible.               *)
(***************************************************************************)
EXTENDS Integers, Sequences, FiniteSets, TLC

VARIABLES hll, heap, last, fed

vars == <<hll, heap, last, fed>>

\* ------------------------------------------------------------------ bounds

\* The HyperLogLog variables the caller holds.
Slots == {1, 2, 3}

\* The hash values the caller feeds, as <<high 16 bits, low 16 bits>>:
\* 0x00010fff, 0xff037000, 0x00030000 (hyperloglog_test.go), and values
\* whose top bits differ at every precision.
HashList ==
  << <<1, 4095>>, <<65283, 28672>>, <<3, 0>>, <<3, 1>>,
     <<8191, 65535>>, <<255, 65535>>, <<32768, 0>>, <<0, 0>> >>

\* the hashes fed where every operation is in play
Hashes == {HashList[1]}

\* The precisions the caller asks New for.
Precisions == {3, 4, 5}

\* ------------------------------------------------------------ machine words

Bit32 == 0..31

U8(n) == n % 256

SetMax(S) == CHOOSE x \in S : \A y \in S : y <= x

SetMin(S) == CHOOSE x \in S : \A y \in S : x <= y

\* uint32(n), for 0 <= n < 2^31
Word(n) == {b \in 0..30 : (n \div (2^b)) % 2 = 1}

\* the number a word stands for (words below 2^31 only)
RECURSIVE Val(_)
Val(w) == IF w = {} THEN 0
          ELSE LET b == SetMax(w) IN (2^b) + Val(w \ {b})

\* w << k and w >> k on uint32: bits shifted out are lost, a count of 32
\* or more gives 0
Shl(w, k) == {c \in Bit32 : c - k \in w}

Shr(w, k) == {c \in Bit32 : c + k \in w}

\* w - 1 on uint32: 0 - 1 wraps to 0xffffffff
Dec(w) == IF w = {} THEN Bit32
          ELSE LET l == SetMin(w) IN (w \ {l}) \cup {c \in Bit32 : c < l}

\* fakeHash32.Sum32 of the item <<hi, lo>>
Sum32(item) == Word(item[2]) \cup Shl(Word(item[1]), 16)

clz32(x) == IF x = {} THEN 32 ELSE 31 - SetMax(x)

\* m := uint32(((1 << (hi - lo)) - 1) << lo); return (bits & m) >> lo
\* hi and lo are uint8, so hi - lo wraps modulo 256.
eb32(bits, hi, lo) ==
  LET m == Shl(Dec(Shl({0}, U8(hi - lo))), lo)
  IN  Shr(bits \cap m, lo)

\* ------------------------------------------------------------- byte slices

\* A byte array: its length and its non-zero bytes.
EmptyNz == [i \in {} |-> 0]

Make(n) == [len |-> n, nz |-> EmptyNz]

Get(a, i) == IF i \in DOMAIN a.nz THEN a.nz[i] ELSE 0

Put(a, i, v) ==
  LET D == IF v = 0 THEN DOMAIN a.nz \ {i} ELSE DOMAIN a.nz \cup {i}
  IN  [a EXCEPT !.nz = [j \in D |-> IF j = i THEN v ELSE a.nz[j]]]

\* a[:n]
Prefix(a, n) == [len |-> n, nz |-> [j \in {i \in DOMAIN a.nz : i < n} |-> a.nz[j]]]

\* A slice: the buffer it points into (0: nil) and its length; the
\* buffer's own length is the slice's capacity.
NilSlice == [buf |-> 0, len |-> 0]

\* the bytes a slice holds
Bytes(hp, sl) == IF sl.buf = 0 THEN Make(0) ELSE Prefix(hp[sl.buf], sl.len)

Cap(hp, sl) == IF sl.buf = 0 THEN 0 ELSE hp[sl.buf].len

\* The zero value of the struct HyperLogLog.
ZeroHLL == [reg |-> NilSlice, m |-> 0, p |-> 0]

\* the registers of variable s, as bytes
Regs(s) == Bytes(heap, hll[s].reg)

\* A buffer is named by the first variable that points into it; a new
\* buffer is FreshBuf until the step that allocates it ends.
FreshBuf == Cardinality(Slots) + 1

Owner(hl, b) == SetMin({s \in Slots : hl[s].reg.buf = b})

NormHLL(hl) ==
  [s \in Slots |->
     IF hl[s].reg.buf = 0 THEN hl[s]
     ELSE [hl[s] EXCEPT !.reg.buf = Owner(hl, hl[s].reg.buf)]]

NormHeap(hl, hp) ==
  [b \in {s \in Slots : hl[s].reg.buf # 0 /\ Owner(hl, hl[s].reg.buf) = s}
     |-> hp[hl[b].reg.buf]]

\* hp with a new buffer holding a
Alloc(hp, a) == [b \in DOMAIN hp \cup {FreshBuf} |-> IF b = FreshBuf THEN a ELSE hp[b]]

\* hp after the bytes of slice sl are overwritten by those of a (Len = sl.len)
WriteSlice(hp, sl, a) ==
  [hp EXCEPT ![sl.buf] =
     [len |-> @.len,
      nz  |-> [j \in DOMAIN a.nz \cup {i \in DOMAIN @.nz : i >= sl.len}
                 |-> IF j < sl.len THEN a.nz[j] ELSE @.nz[j]]]]

\* ------------------------------------------------------ history of a step

\* What the last call was and how it ended: err is a returned error, panic
\* a run-time panic; out is the value returned.
Call(op, s, arg, err, panic, out) ==
  [op |-> op, s |-> s, arg |-> arg, err |-> err, panic |-> panic, out |-> out]

\* The record of the hashes a variable has absorbed since New, kept for
\* the caller that shards a stream (off otherwise); unknown once the
\* registers have another origin.
Off == [known |-> FALSE, off |-> TRUE, set |-> {}]

Unknown == [known |-> FALSE, off |-> FALSE, set |-> {}]

Known(S) == [known |-> TRUE, off |-> FALSE, set |-> S]

\* the state after a step: buffers renamed, unreachable buffers dropped
Finish(hl, hp, l, fd) ==
  /\ hll' = NormHLL(hl)
  /\ heap' = NormHeap(hl, hp)
  /\ last' = l
  /\ fed' = [s \in Slots |-> IF fed[s].off THEN fed[s] ELSE fd[s]]

\* --------------------------------------------------------------- New

\* h.m = 1 << precision; h.reg = make([]uint8, h.m)
NewHLL(precision) ==
  [reg |-> [buf |-> FreshBuf, len |-> 2^precision], m |-> 2^precision, p |-> precision]

\* s, err := New(precision); on an error the caller keeps what s held.
New(s, precision) ==
  /\ IF precision > 16 \/ precision < 4
     THEN Finish(hll, heap, Call("New", s, precision, TRUE, FALSE, 0), fed)
     ELSE Finish([hll EXCEPT ![s] = NewHLL(precision)],
                 Alloc(heap, Make(2^precision)),
                 Call("New", s, precision, FALSE, FALSE, 0),
                 [fed EXCEPT ![s] = Known({})])

\* --------------------------------------------------------------- NewReg

RangeError == "number of registers out of range"

Pow2Error == "invalid number of registers (must be power of 2)"

\* p := 31 - clz32(uint32(len(reg))), in uint8
NewRegP(n) == U8(31 - clz32(Word(n)))

\* NewReg without the check 1<<p != len(reg)
NewRegErrorNoPow2(n) == IF n > 2^16 \/ n < 2^4 THEN RangeError ELSE ""

\* NewReg's verdict on a slice of n bytes: "" when it is accepted
NewRegError(n) ==
  IF n > 2^16 \/ n < 2^4 THEN RangeError
  ELSE IF 2^NewRegP(n) # n THEN Pow2Error
  ELSE ""

\* the HyperLogLog NewReg builds on the slice sl
NewRegHLL(sl) == [reg |-> sl, m |-> 2^NewRegP(sl.len), p |-> NewRegP(sl.len)]

\* s, err := NewReg(buf), buf a buffer of the caller's that nothing else
\* points into
NewReg(s, buf) ==
  /\ LET e == NewRegError(buf.len) IN
     IF e # ""
     THEN Finish(hll, heap, Call("NewReg", s, buf, TRUE, FALSE, e), fed)
     ELSE Finish([hll EXCEPT ![s] = NewRegHLL([buf |-> FreshBuf, len |-> buf.len])],
                 Alloc(heap, buf),
                 Call("NewReg", s, buf, FALSE, FALSE, e),
                 [fed EXCEPT ![s] = Unknown])

\* s, err := NewReg(t.Registers()): s shares t's registers
NewRegOf(s, t) ==
  /\ s # t
  /\ LET e == NewRegError(hll[t].reg.len) IN
     IF e # ""
     THEN Finish(hll, heap, Call("NewRegOf", s, t, TRUE, FALSE, e), fed)
     ELSE Finish([hll EXCEPT ![s] = NewRegHLL(hll[t].reg)], heap,
                 Call("NewRegOf", s, t, FALSE, FALSE, e),
                 [fed EXCEPT ![s] = Unknown, ![t] = Unknown])

\* --------------------------------------------------------------- Copy

\* s := t.Copy(): NewReg on a copy of t's registers, panic on its error
Copy(s, t) ==
  /\ LET reg == Regs(t)
         e   == NewRegError(reg.len)
     IN  IF e # ""
         THEN Finish(hll, heap, Call("Copy", s, t, FALSE, TRUE, e), fed)
         ELSE Finish([hll EXCEPT ![s] = NewRegHLL([buf |-> FreshBuf, len |-> reg.len])],
                     Alloc(heap, reg),
                     Call("Copy", s, t, FALSE, FALSE, e),
                     [fed EXCEPT ![s] = fed[t]])

\* --------------------------------------------------------------- Clear

\* h.reg = make([]uint8, h.m)
Clear(s) ==
  /\ Finish([hll EXCEPT ![s].reg = [buf |-> FreshBuf, len |-> hll[s].m]],
            Alloc(heap, Make(hll[s].m)),
            Call("Clear", s, 0, FALSE, FALSE, 0),
            [fed EXCEPT ![s] = IF @.known THEN Known({}) ELSE @])

\* --------------------------------------------------------------- Add

\* i := eb32(x, 32, 32-h.p)
AddIndex(p, x) == Val(eb32(x, 32, U8(32 - p)))

\* the rank without the sentinel bit 1<<(h.p-1)
AddRankNoSentinel(p, x) == U8(clz32(Shl(x, p)) + 1)

\* w := x<<h.p | 1<<(h.p-1); zeroBits := clz32(w) + 1
AddRank(p, x) == U8(clz32(Shl(x, p) \cup Shl({0}, U8(p - 1))) + 1)

\* Add with the comparison turned around
AddRegsInverted(a, p, x) ==
  IF AddRank(p, x) < Get(a, AddIndex(p, x))
  THEN Put(a, AddIndex(p, x), AddRank(p, x))
  ELSE a

\* Add without the comparison: the register is overwritten
AddRegsOverwrite(a, p, x) == Put(a, AddIndex(p, x), AddRank(p, x))

\* the registers after Add of the word x, at precision p
AddRegs(a, p, x) ==
  IF AddRank(p, x) > Get(a, AddIndex(p, x))
  THEN Put(a, AddIndex(p, x), AddRank(p, x))
  ELSE a

\* s.Add(item): h.reg[i] panics when i is not below len(h.reg)
Add(s, item) ==
  /\ LET h == hll[s]
         x == Sum32(item)
     IN  IF AddIndex(h.p, x) >= h.reg.len
         THEN Finish(hll, heap, Call("Add", s, item, FALSE, TRUE, 0), fed)
         ELSE Finish(hll, WriteSlice(heap, h.reg, AddRegs(Regs(s), h.p, x)),
                     Call("Add", s, item, FALSE, FALSE, 0),
                     [fed EXCEPT ![s].set = IF fed[s].known THEN @ \cup {item} ELSE @])

\* --------------------------------------------------------------- Merge

Max2(x, y) == IF y > x THEN y ELSE x

Min2(x, y) == IF y < x THEN y ELSE x

\* Merge without the comparison: every register other has set is copied
MergeRegsOverwrite(a, o) ==
  LET n == Min2(a.len, o.len)
      D == DOMAIN a.nz \cup {i \in DOMAIN o.nz : i < n}
  IN  [len |-> a.len,
       nz  |-> [i \in D |-> IF i < n /\ Get(o, i) # 0 THEN Get(o, i) ELSE a.nz[i]]]

\* for i, v := range other.reg { if v > h.reg[i] { h.reg[i] = v } }
\* on the registers a of h and o of other, as far as both reach
MergeRegs(a, o) ==
  LET n == Min2(a.len, o.len)
      D == DOMAIN a.nz \cup {i \in DOMAIN o.nz : i < n}
  IN  [len |-> a.len,
       nz  |-> [i \in D |-> IF i < n THEN Max2(Get(a, i), Get(o, i)) ELSE a.nz[i]]]

\* Merge without the check of the precisions
MergeUnchecked(s, t) ==
  LET h == hll[s]
      other == hll[t]
  IN  IF h.reg.buf = 0
      THEN Finish(hll, heap, Call("Merge", s, t, FALSE, other.reg.len > 0, 0), fed)
      ELSE Finish(hll, WriteSlice(heap, h.reg, MergeRegs(Regs(s), Regs(t))),
                  Call("Merge", s, t, FALSE, other.reg.len > h.reg.len, 0), fed)

\* err := s.Merge(t); h.reg[i] panics at the first i past len(h.reg)
Merge(s, t) ==
  /\ LET h == hll[s]
         other == hll[t]
     IN  IF h.p # other.p
         THEN Finish(hll, heap, Call("Merge", s, t, TRUE, FALSE, 0), fed)
         ELSE IF h.reg.buf = 0
         THEN Finish(hll, heap, Call("Merge", s, t, FALSE, other.reg.len > 0, 0), fed)
         ELSE Finish(hll, WriteSlice(heap, h.reg, MergeRegs(Regs(s), Regs(t))),
                     Call("Merge", s, t, FALSE, other.reg.len > h.reg.len, 0),
                     [fed EXCEPT ![s] =
                        IF @.known /\ fed[t].known
                        THEN Known(@.set \cup fed[t].set) ELSE Unknown])

\* --------------------------------------------------------------- Count

\* Count computes in float64.  Its result is modelled by an enclosure
\* <<lo, hi>>: two integers the returned uint64 lies between, derived from
\* the real-valued formulas by integer arithmetic.  hi = Huge stands for
\* "no upper bound known" (also a NaN or negative float converted to uint64).
Huge == (2^30 - 1) + 2^30

\* floor(two32 / 30)
TwoTo32Over30 == 143165576

Hull(e, f) == <<Min2(e[1], f[1]), Max2(e[2], f[2])>>

\* alpha(m) in units of 1/10000, as <<lower, upper>> bounds:
\* 0.7213 / (1 + 1.079/m) lies between 0.7213 m / (m + 2) and 0.7213
alpha(m) ==
  IF m = 16 THEN <<6730, 6730>>
  ELSE IF m = 32 THEN <<6970, 6970>>
  ELSE IF m = 64 THEN <<7090, 7090>>
  ELSE <<(7213 * m) \div (m + 2), 7213>>

countZeros(a) == a.len - Cardinality(DOMAIN a.nz)

\* fm * math.Log(fm / float64(v)), truncated.  With k = m - v and v <= m:
\* k + k^2/(2m) <= m ln(m/v) <= k + k^2/(2v).  m = 0 gives NaN and v > m a
\* negative float, whose conversion to uint64 is not defined.
linearCounting(m, v) ==
  LET k == m - v IN
  IF m = 0 \/ v > m THEN <<0, Huge>>
  ELSE IF k > 40000 THEN <<k, Huge>>
  ELSE <<k + ((k * k) \div (2 * m)), k + ((k * k) \div (2 * v))>>

\* alpha(m) * fm * fm / sum, truncated, m = len(s).  sum adds 1 for every
\* zero register and at most 1/2 for every other one, so sum lies between
\* the number z of zero registers and (m + z) / 2.  A register of 64 or
\* more makes uint64(1)<<val zero and the sum +Inf, hence the estimate 0.
ZeroEstimate(a) == a.len = 0 \/ (\E i \in DOMAIN a.nz : a.nz[i] >= 64)

calculateEstimate(a) ==
  LET m == a.len
      z == countZeros(a)
      r == IF z = 0 THEN 0 ELSE (m + z - 1) \div z
  IN  IF ZeroEstimate(a) THEN <<0, 0>>
      ELSE << (m * ((2 * alpha(m)[1] * m) \div (m + z))) \div 10000,
              IF z = 0 \/ r > 4 THEN Huge ELSE (alpha(m)[2] * m * r) \div 10000 >>

\* Count without the small-range correction: the raw estimate
CountOfRaw(a, hm) == calculateEstimate(a)

\* the enclosure of h.Count() for registers a and h.m = hm
CountOf(a, hm) ==
  LET est == calculateEstimate(a)
      v   == countZeros(a)
      \* est <= float64(h.m)*2.5 for sure / possibly
      must == ZeroEstimate(a) \/ (est[2] # Huge /\ 2 * (est[2] + 1) <= 5 * Min2(hm, 2^16))
      may  == 2 * est[1] <= 5 * Min2(hm, 2^26)
      small == IF v # 0 THEN linearCounting(hm, v) ELSE est
      large == IF est[2] < TwoTo32Over30 THEN est ELSE <<est[1], Huge>>
  IN  IF must THEN small
      ELSE IF ~may THEN large
      ELSE Hull(small, large)

\* n := s.Count()
Count(s) ==
  /\ UNCHANGED <<hll, heap, fed>>
  /\ last' = Call("Count", s, 0, FALSE, FALSE, CountOf(Regs(s), hll[s].m))

\* --------------------------------------------------------------- gob

\* A gob stream is the sequence of the values encoded into it, each with
\* its wire type: "bytes" for a []uint8, "uint" for an unsigned integer.
GobBytes(a) == [t |-> "bytes", v |-> a, n |-> 0]

GobUint(n) == [t |-> "uint", v |-> Make(0), n |-> n]

\* enc.Encode(h.reg); enc.Encode(h.m); enc.Encode(h.p)
GobOf(a, h) == <<GobBytes(a), GobUint(h.m), GobUint(h.p)>>

\* b, err := s.GobEncode()
GobEncode(s) ==
  /\ UNCHANGED <<hll, heap, fed>>
  /\ last' = Call("GobEncode", s, 0, FALSE, FALSE, GobOf(Regs(s), hll[s]))

\* dec.Decode(&h.reg): gob reuses the slice when its capacity suffices and
\* allocates otherwise
GobDecodeReg(h, a) ==
  IF Cap(heap, h.reg) < a.len
  THEN [h EXCEPT !.reg = [buf |-> FreshBuf, len |-> a.len]]
  ELSE [h EXCEPT !.reg.len = a.len]

GobDecodeHeap(h, a) ==
  IF Cap(heap, h.reg) < a.len THEN Alloc(heap, a)
  ELSE IF h.reg.buf = 0 THEN heap
  ELSE WriteSlice(heap, [buf |-> h.reg.buf, len |-> a.len], a)

\* how many of the three fields GobDecode stores before it returns: the
\* stream may end early, hold a value of another type, or a value too
\* large for the field
GobFields(b) ==
  IF Len(b) < 1 \/ b[1].t # "bytes" THEN 0
  ELSE IF Len(b) < 2 \/ b[2].t # "uint" THEN 1
  ELSE IF Len(b) < 3 \/ b[3].t # "uint" \/ b[3].n > 255 THEN 2
  ELSE 3

\* err := s.GobDecode(b)
GobDecode(s, b) ==
  LET k  == GobFields(b)
      h0 == hll[s]
      h1 == IF k >= 1 THEN GobDecodeReg(h0, b[1].v) ELSE h0
      h2 == IF k >= 2 THEN [h1 EXCEPT !.m = b[2].n] ELSE h1
      h3 == IF k >= 3 THEN [h2 EXCEPT !.p = b[3].n] ELSE h2
  IN  Finish([hll EXCEPT ![s] = h3],
             IF k >= 1 THEN GobDecodeHeap(h0, b[1].v) ELSE heap,
             Call("GobDecode", s, b, k < 3, FALSE, 0),
             [x \in Slots |->
                IF k >= 1 /\ (x = s \/ (h0.reg.buf # 0 /\ hll[x].reg.buf = h0.reg.buf))
                THEN Unknown ELSE fed[x]])

\* --------------------------------------------------------------- text

\* A text is an array of symbols: 0..63 the letters of the base64 standard
\* alphabet ('A' is 0), Pad the '=' sign, any larger value a byte outside the
\* alphabet.
Pad == 64

\* base64.StdEncoding.EncodedLen(n)
EncodedLen(n) == ((n + 2) \div 3) * 4

\* base64.StdEncoding.DecodedLen(n)
DecodedLen(n) == (n \div 4) * 3

\* the k-th letter of the encoding of a: 3 bytes make 4 letters
Sextet(a, k) ==
  LET g  == k \div 4
      b0 == Get(a, 3 * g)
      b1 == Get(a, 3 * g + 1)
      b2 == Get(a, 3 * g + 2)
  IN  CASE k % 4 = 0 -> b0 \div 4
        [] k % 4 = 1 -> (b0 % 4) * 16 + (b1 \div 16)
        [] k % 4 = 2 -> (b1 % 16) * 4 + (b2 \div 64)
        [] k % 4 = 3 -> b2 % 64

\* base64.StdEncoding.Encode(dst, src): the last group is padded with '='
StdEncode(a) ==
  LET n    == EncodedLen(a.len)
      rem  == a.len % 3
      pads == IF rem = 0 THEN {} ELSE {k \in {n - 2, n - 1} : k >= n - (3 - rem)}
      near == UNION {{4 * (j \div 3) + (j % 3), 4 * (j \div 3) + (j % 3) + 1} : j \in DOMAIN a.nz}
      D    == {k \in near : Sextet(a, k) # 0} \cup pads
  IN  [len |-> n, nz |-> [k \in D |-> IF k \in pads THEN Pad ELSE Sextet(a, k)]]

\* text, err := s.MarshalText()
MarshalText(s) ==
  /\ UNCHANGED <<hll, heap, fed>>
  /\ last' = Call("MarshalText", s, 0, FALSE, FALSE, StdEncode(Regs(s)))

\* the '=' signs that end the text t
TextPads(t) ==
  IF t.len >= 2 /\ Get(t, t.len - 1) = Pad /\ Get(t, t.len - 2) = Pad THEN 2
  ELSE IF t.len >= 1 /\ Get(t, t.len - 1) = Pad THEN 1
  ELSE 0

\* Decode fails (CorruptInputError) on a byte outside the alphabet, on '='
\* anywhere but in the last one or two places, and on a length that is no
\* multiple of 4
StdDecodeError(t) ==
  \/ t.len % 4 # 0
  \/ \E k \in DOMAIN t.nz : t.nz[k] > Pad
  \/ \E k \in DOMAIN t.nz : t.nz[k] = Pad /\ k < t.len - TextPads(t)

\* a letter's 6 bits; a '=' carries none
Six(t, k) == IF Get(t, k) = Pad THEN 0 ELSE Get(t, k)

\* the j-th byte decoded from t: 4 letters make 3 bytes
DecodedByte(t, j) ==
  LET g == j \div 3
  IN  CASE j % 3 = 0 -> Six(t, 4 * g) * 4 + (Six(t, 4 * g + 1) \div 16)
        [] j % 3 = 1 -> (Six(t, 4 * g + 1) % 16) * 16 + (Six(t, 4 * g + 2) \div 4)
        [] j % 3 = 2 -> (Six(t, 4 * g + 2) % 4) * 64 + Six(t, 4 * g + 3)

\* the decoded length taken for the number of bytes decoded
StdDecodeNPadded(t) == DecodedLen(t.len)

\* n, err := base64.StdEncoding.Decode(reg, text), for a text without error:
\* reg has DecodedLen(len(text)) bytes, of which the first n are decoded
StdDecodeN(t) == DecodedLen(t.len) - TextPads(t)

StdDecode(t) ==
  LET n    == StdDecodeN(t)
      near == UNION {{3 * (k \div 4) + (k % 4) - 1, 3 * (k \div 4) + (k % 4)} : k \in DOMAIN t.nz}
      D    == {j \in near : j >= 0 /\ j < n /\ DecodedByte(t, j) # 0}
  IN  [len |-> DecodedLen(t.len), nz |-> [j \in D |-> DecodedByte(t, j)]]

\* err := s.UnmarshalText(text)
UnmarshalText(s, text) ==
  IF StdDecodeError(text)
  THEN Finish(hll, heap, Call("UnmarshalText", s, text, TRUE, FALSE, "base64"), fed)
  ELSE LET e == NewRegError(StdDecodeN(text)) IN
       IF e # ""
       THEN Finish(hll, heap, Call("UnmarshalText", s, text, TRUE, FALSE, e), fed)
       ELSE Finish([hll EXCEPT ![s] = NewRegHLL([buf |-> FreshBuf, len |-> StdDecodeN(text)])],
                   Alloc(heap, StdDecode(text)),
                   Call("UnmarshalText", s, text, FALSE, FALSE, e),
                   [fed EXCEPT ![s] = Unknown])

\* ------------------------------------------------------- the caller's inputs

\* buffers handed to NewReg
RegBuffers == { Put(Put(Make(16), 0, 20), 15, 200), Make(17) }

\* gob streams that no GobEncode of a valid HyperLogLog wrote: empty cut
\* short, registers, m and p that disagree; and
\* the stream of New(4)
ForeignGobs ==
  { << >>,
    <<GobBytes(Make(16))>>,
    <<GobBytes(Make(16)), GobUint(32), GobUint(3)>>,
    <<GobBytes(Make(16)), GobUint(16), GobUint(4)>> }

\* texts that no MarshalText of a valid HyperLogLog wrote, and the text of
\* New(4)
ForeignTexts == { Make(5), StdEncode(Make(16)) }

\* the caller decodes what an encoder has just returned, or foreign bytes
GobInputs == ForeignGobs \cup (IF last.op = "GobEncode" THEN {last.out} ELSE {})

TextInputs == ForeignTexts \cup (IF last.op = "MarshalText" THEN {last.out} ELSE {})

\* ------------------------------------------------------------ specification

\* var h HyperLogLog: every variable starts as the zero value
Init ==
  /\ hll = [s \in Slots |-> ZeroHLL]
  /\ heap = [b \in {} |-> Make(0)]
  /\ last = Call("Init", 0, 0, FALSE, FALSE, 0)
  /\ fed = [s \in Slots |-> Off]

\* Any call of the package on two variables.
Pair == {1, 2}

Next ==
  \/ \E s \in Pair, precision \in Precisions : New(s, precision)
  \/ \E s \in Pair, buf \in RegBuffers : NewReg(s, buf)
  \/ \E s \in Pair, t \in Pair : NewRegOf(s, t)
  \/ \E s \in Pair, t \in Pair : Copy(s, t)
  \/ Clear(1)
  \/ \E s \in Pair, item \in Hashes : Add(s, item)
  \/ \E s \in Pair, t \in Pair : Merge(s, t)
  \/ Count(1)
  \/ GobEncode(1)
  \/ \E b \in GobInputs : GobDecode(1, b)
  \/ MarshalText(1)
  \/ \E text \in TextInputs : UnmarshalText(1, text)

Spec == Init /\ [][Next]_vars

\* ============================================================ properties

\* what the data model asks of an instance: len(registers) = m = 2^p, 4 <= p <= 16
Valid(h) == h.p \in 4..16 /\ h.m = 2^h.p /\ h.reg.len = h.m

\* the number of bits of n: 0 for 0, floor(log2 n) + 1 otherwise
RECURSIVE BitLen(_)
BitLen(n) == IF n = 0 THEN 0 ELSE 1 + BitLen(n \div 2)

\* ------------------------------------------------------------- Add alone

NumAddHashes == 6

AddHashes == {HashList[k] : k \in 1..NumAddHashes}

AddPrecisions == 3..17

NextAdd ==
  \/ \E precision \in AddPrecisions : New(1, precision)
  \/ \E item \in AddHashes : Add(1, item)

SpecAdd == Init /\ [][NextAdd]_vars

\* C1: Add(x) on a sketch of precision p in 4..16 sets register x div 2^(32-p)
\* to the maximum of its old value and the rank, and leaves every other
\* register, p and m unchanged; the rank is 1 + the number of leading zero
\* bits of the low 32-p bits of x read as a (32-p)-bit field, 33-p when they
\* are all zero.  item = <<hi, lo>> is x = hi * 2^16 + lo.
C1_AddSetsRegister ==
  [][\A s \in Slots :
       (last'.op = "Add" /\ last'.s = s /\ Valid(hll[s])) =>
         LET item == last'.arg
             p    == hll[s].p
             i    == item[1] \div (2^(16 - p))
             low  == (item[1] % (2^(16 - p))) * 65536 + item[2]
             rank == IF low = 0 THEN 33 - p ELSE 1 + ((32 - p) - BitLen(low))
             old  == Regs(s)
             new  == Regs(s)'
         IN  /\ ~last'.panic /\ ~last'.err
             /\ new.len = old.len
             /\ \A j \in DOMAIN old.nz \cup DOMAIN new.nz \cup {i} :
                  Get(new, j) = IF j = i THEN Max2(Get(old, j), rank) ELSE Get(old, j)
             /\ hll'[s].p = p /\ hll'[s].m = hll[s].m]_vars

\* At precision 16, 0x00030001 (rank 16) was added after 0x00030000 (rank
\* 17, its low bits all zero) and 0x00010fff: register 3 keeps 17.
C1_Witness ==
  /\ last.op = "Add" /\ last.arg = <<3, 1>>
  /\ hll[1].p = 16
  /\ Get(Regs(1), 3) = 17 /\ Get(Regs(1), 1) = 5

\* ------------------------------------------------------ sharding a stream

\* 0x00010fff, 0x08000000, 0xff037000, 0x00030000: the first two share a
\* register at precision 4 (ranks 12 and 1) and not at precision 5
ShardHashList == << <<1, 4095>>, <<2048, 0>>, <<65283, 28672>>, <<3, 0>> >>

NumShardHashes == 2

ShardHashes == {ShardHashList[k] : k \in 1..NumShardHashes}

ShardPrecisions == {4, 5}

\* as Init, with the record of the hashes fed switched on
InitShard ==
  /\ hll = [s \in Slots |-> ZeroHLL]
  /\ heap = [b \in {} |-> Make(0)]
  /\ last = Call("Init", 0, 0, FALSE, FALSE, 0)
  /\ fed = [s \in Slots |-> Unknown]

NextShard ==
  \/ \E s \in Slots, precision \in ShardPrecisions : New(s, precision)
  \/ \E s \in Slots, item \in ShardHashes : Add(s, item)
  \/ \E s \in Slots, t \in Slots : Merge(s, t)

SpecShard == InitShard /\ [][NextShard]_vars

\* every hash of S added to a, one after the other, in some fixed order
RECURSIVE AddAll(_, _, _)
AddAll(a, p, S) ==
  IF S = {} THEN a
  ELSE LET item == CHOOSE x \in S : TRUE
       IN  AddAll(AddRegs(a, p, Sum32(item)), p, S \ {item})

\* C2: the registers of a sketch that started from New(p) and went through
\* any sequence of Add and Merge depend only on the set of hashes fed in:
\* they are those of a single sketch to which every hash was added.
C2_ShardingEquivalent ==
  \A s \in Slots :
    fed[s].known =>
      /\ Valid(hll[s])
      /\ Regs(s) = AddAll(Make(2^hll[s].p), hll[s].p, fed[s].set)

\* Two shards with different, non-empty parts of the stream have been merged
\* into the aggregate 3, which holds the whole stream.
C2_Witness ==
  /\ last.op = "Merge" /\ last.s = 3 /\ ~last.err
  /\ \A s \in Slots : fed[s].known
  /\ fed[3].set = ShardHashes
  /\ fed[1].set # {} /\ fed[2].set # {}
  /\ fed[1].set # fed[3].set /\ fed[2].set # fed[3].set
  /\ fed[1].set # fed[2].set

\* the larger of two register values
Larger(x, y) == IF x >= y THEN x ELSE y

\* C3: for sketches of equal precision Merge sets every register of the
\* receiver to the maximum of its own and the other's value and leaves the
\* other sketch unchanged; on register vectors Merge is commutative,
\* associative, idempotent, and a no-op when the other is dominated.
C3_MergeIsJoin ==
  [][/\ \A s \in Slots, t \in Slots :
          (last'.op = "Merge" /\ last'.s = s /\ last'.arg = t
             /\ Valid(hll[s]) /\ Valid(hll[t]) /\ hll[s].p = hll[t].p) =>
            LET old == Regs(s)
                oth == Regs(t)
                new == Regs(s)'
            IN  /\ ~last'.err /\ ~last'.panic
                /\ new.len = old.len
                /\ \A j \in DOMAIN old.nz \cup DOMAIN oth.nz \cup DOMAIN new.nz :
                     Get(new, j) = Larger(Get(old, j), Get(oth, j))
                /\ hll'[s].p = hll[s].p /\ hll'[s].m = hll[s].m
                /\ t # s => hll'[t] = hll[t] /\ Regs(t)' = oth
     /\ (Valid(hll[1]) /\ Valid(hll[2]) /\ Valid(hll[3])
           /\ hll[1].p = hll[2].p /\ hll[2].p = hll[3].p) =>
            LET A == Regs(1)
                B == Regs(2)
                C == Regs(3)
            IN  /\ MergeRegs(A, B) = MergeRegs(B, A)
                /\ MergeRegs(MergeRegs(A, B), C) = MergeRegs(A, MergeRegs(B, C))
                /\ MergeRegs(A, A) = A
                /\ (\A j \in DOMAIN B.nz : B.nz[j] <= Get(A, j)) => MergeRegs(A, B) = A
    ]_vars

\* 2 has been merged into 1 where both held a value for the same register,
\* 1 the larger one, and 3 is a third sketch of the same precision.
C3_Witness ==
  /\ last.op = "Merge" /\ last.s = 1 /\ last.arg = 2 /\ ~last.err
  /\ Valid(hll[1]) /\ hll[1].p = hll[2].p /\ hll[1].p = hll[3].p
  /\ \E j \in DOMAIN Regs(2).nz : Get(Regs(1), j) > Get(Regs(2), j)
  /\ DOMAIN Regs(3).nz # {}

\* C4: Merge of two sketches whose precisions differ returns an error and
\* changes nothing of either sketch.
C4_MergeMismatch ==
  [][(last'.op = "Merge" /\ hll[last'.s].p # hll[last'.arg].p) =>
       /\ last'.err /\ ~last'.panic
       /\ hll' = hll /\ heap' = heap]_vars

\* Merge has failed between a sketch of precision 4 and one of precision 5,
\* both with registers set.
C4_Witness ==
  /\ last.op = "Merge" /\ last.err
  /\ Valid(hll[last.s]) /\ Valid(hll[last.arg])
  /\ hll[last.s].p # hll[last.arg].p
  /\ DOMAIN Regs(last.s).nz # {} /\ DOMAIN Regs(last.arg).nz # {}

\* ------------------------------------------------------- small cardinalities

\* Hashes whose top 11 bits are 1, 2, 3, ..., hence in distinct registers at
\* every precision from 11 on.
CountHashList ==
  << <<33, 1007>>, <<66, 2007>>, <<99, 3007>>, <<132, 4007>>, <<165, 5007>>,
     <<198, 6007>>, <<224, 7007>>, <<257, 8007>>, <<290, 9007>>, <<323, 10007>> >>

NumCountHashes == 8

\* 0x00250063 shares the register of 0x002103ef up to precision 13
CountHashes == {CountHashList[k] : k \in 1..NumCountHashes} \cup {<<37, 99>>}

CountPrecisions == 10..16

NextCount ==
  \/ \E precision \in CountPrecisions : New(1, precision)
  \/ \E item \in CountHashes : Add(1, item)
  \/ Count(1)

SpecCount == InitShard /\ [][NextCount]_vars

\* the registers the hashes of S fall into at precision p
RegistersHit(S, p) == {item[1] \div (2^(16 - p)) : item \in S}

\* C5: for p in 11..16, a sketch built from New(p) by adding hashes that fall
\* into k distinct registers, k in 0..8, has Count() = k exactly, and Count
\* changes no state.
C5_SmallCountExact ==
  [][(last'.op = "Count" /\ fed[1].known /\ hll[1].p \in 11..16
        /\ Cardinality(RegistersHit(fed[1].set, hll[1].p)) \in 0..8) =>
       /\ last'.out = << Cardinality(RegistersHit(fed[1].set, hll[1].p)),
                         Cardinality(RegistersHit(fed[1].set, hll[1].p)) >>
       /\ ~last'.err /\ ~last'.panic
       /\ hll' = hll /\ heap' = heap]_vars

\* Count has returned 8 at precision 11 after 9 hashes, two of them in the
\* same register.
C5_Witness ==
  /\ last.op = "Count" /\ last.out = <<8, 8>>
  /\ hll[1].p = 11 /\ fed[1].known
  /\ Cardinality(fed[1].set) = 9
  /\ Cardinality(DOMAIN Regs(1).nz) = 8

\* ------------------------------------------------- any calls, on two variables

Constructors == {"New", "NewReg", "NewRegOf", "Copy"}

Decoders == {"GobDecode", "UnmarshalText"}

\* the zero value, or what decoding the zero value's gob stream leaves
ZeroLike(h) == h.m = 0 /\ h.p = 0 /\ h.reg.len = 0

\* C6: every instance a construction path (New, NewReg, Copy, UnmarshalText,
\* GobDecode) has returned without error satisfies len(registers) = m = 2^p and
\* 4 <= p <= 16, the zero value's round trip aside; decoding a gob stream
\* whose registers, m and p disagree fails.
C6_ConstructedValid ==
  (last.op \in Constructors \cup Decoders /\ ~last.err /\ ~last.panic) =>
    (Valid(hll[last.s]) \/ ZeroLike(hll[last.s]))

\* the step has put a new instance into variable s
Reassigned(s) ==
  last'.op \in Constructors /\ last'.s = s /\ ~last'.err /\ ~last'.panic

\* every register of s that was set is still there and no smaller
NoDecrease(s) ==
  \A j \in DOMAIN Regs(s).nz : j < Regs(s)'.len /\ Get(Regs(s)', j) >= Get(Regs(s), j)

\* Clear of s has set every register to 0 and kept p and m
Cleared(s) ==
  /\ DOMAIN Regs(s)'.nz = {}
  /\ hll'[s].p = hll[s].p /\ hll'[s].m = hll[s].m

\* C7 as stated: across Add, Merge, Count, Copy, Clear, encode and decode into
\* the same instance, no register decreases from one state to the next except
\* in a Clear, and Clear sets every register to 0 while preserving p and m.
C7_NoDecreaseButClear ==
  [][\A s \in Slots :
       IF last'.op = "Clear" /\ last'.s = s THEN Cleared(s)
       ELSE ~Reassigned(s) => NoDecrease(s)]_vars

\* C7 amended: no register decreases from one state to the next except in a
\* step that is a Clear or a decode (GobDecode, UnmarshalText), and Clear sets
\* every register to 0 while preserving p and m.
C7_NoDecreaseButClearOrDecode ==
  [][\A s \in Slots :
       IF last'.op = "Clear" /\ last'.s = s THEN Cleared(s)
       ELSE (~Reassigned(s) /\ last'.op \notin Decoders) => NoDecrease(s)]_vars

\* Add of 0x00010fff at precision 4 (register 0, rank 12) has left register 0
\* at the 20 it held.
C7_Witness ==
  /\ last.op = "Add" /\ last.s = 1 /\ ~last.panic
  /\ last.arg = <<1, 4095>>
  /\ hll[1].p = 4 /\ Get(Regs(1), 0) = 20

\* C10: no operation aborts, on any instance the calls can yield, the zero
\* value included, on which Count returns 0.
C10_Total ==
  /\ ~last.panic
  /\ (last.op = "Count" /\ hll[last.s].m = 0) => last.out = <<0, 0>>

\* ------------------------------------------------------ buffers and encodings

\* buffers with registers set: every byte of a base64 group, both paddings,
\* the last register of the largest sketch
CodecBuffers ==
  { Put(Put(Put(Put(Make(16), 0, 255), 1, 1), 2, 63), 15, 200),
    Put(Put(Put(Make(32), 3, 64), 30, 7), 31, 129),
    Put(Put(Make(65536), 0, 5), 65535, 33) }

CodecPrecisions == {4, 5}

\* Variable 1 holds the sketch that is encoded; what was encoded, or foreign
\* bytes, is decoded into either variable.
NextCodec ==
  \/ \E precision \in CodecPrecisions : New(1, precision)
  \/ \E buf \in CodecBuffers : NewReg(1, buf)
  \/ \E item \in Hashes : Add(1, item)
  \/ GobEncode(1)
  \/ \E s \in Pair, b \in GobInputs : GobDecode(s, b)
  \/ MarshalText(1)
  \/ \E s \in Pair, text \in TextInputs : UnmarshalText(s, text)

SpecCodec == Init /\ [][NextCodec]_vars

\* the instance in variable s after the step equals the one in t before it
SameAsBefore(s, t) ==
  /\ hll'[s].p = hll[t].p /\ hll'[s].m = hll[t].m
  /\ Regs(s)' = Regs(t)

\* C8: decoding the gob encoding and decoding the text encoding of a validly
\* constructed sketch each succeed and yield an instance equal to it in p, m
\* and every register; the gob round trip also holds for the zero value.
C8_RoundTrip ==
  [][\A s \in Slots, t \in Slots :
       (last'.s = s /\ last.s = t) =>
         /\ (last.op = "GobEncode" /\ last'.op = "GobDecode" /\ last'.arg = last.out
               /\ (Valid(hll[t]) \/ hll[t] = ZeroHLL)) =>
              (~last'.err /\ ~last'.panic /\ SameAsBefore(s, t))
         /\ (last.op = "MarshalText" /\ last'.op = "UnmarshalText" /\ last'.arg = last.out
               /\ Valid(hll[t])) =>
              (~last'.err /\ ~last'.panic /\ SameAsBefore(s, t))]_vars

\* The text of the 32 registers with 64, 7 and 129 among them has been decoded
\* into a variable that held other registers.
C8_Witness ==
  /\ last.op = "UnmarshalText" /\ ~last.err /\ last.s = 2
  /\ hll[2].p = 5 /\ Get(Regs(2), 3) = 64 /\ Get(Regs(2), 31) = 129
  /\ hll[1].p = 5 /\ Regs(1) = Regs(2) /\ hll[1].reg.buf # hll[2].reg.buf

\* ------------------------------------------------------------ NewReg alone

\* lengths of the buffers handed to NewReg
NewRegLengths == {0, 8, 15, 16, 17, 24, 32, 100, 1024, 65535, 65536, 65537, 131072}

NewRegBuffers == {Make(n) : n \in NewRegLengths} \cup CodecBuffers

NextNewReg ==
  \/ \E s \in Pair, buf \in NewRegBuffers : NewReg(s, buf)
  \/ \E s \in Pair, t \in Pair : NewRegOf(s, t)

SpecNewReg == Init /\ [][NextNewReg]_vars

PowerOfTwoInRange(n) == \E k \in 4..16 : n = 2^k

\* C9: NewReg(buffer) succeeds exactly when len(buffer) is a power of two in
\* [16, 65536], and then p = log2(len(buffer)) and m = len(buffer); a length
\* below 16 or above 65536 fails with the out-of-range error, any other length
\* that is no power of two with the distinct not-a-power-of-two error.
C9_NewRegLengths ==
  last.op = "NewReg" =>
    LET n == last.arg.len
        h == hll[last.s]
    IN  /\ ~last.panic
        /\ ~last.err <=> PowerOfTwoInRange(n)
        /\ ~last.err => (h.m = n /\ 2^h.p = n /\ h.p \in 4..16 /\ Regs(last.s) = last.arg)
        /\ (n < 16 \/ n > 65536) => (last.err /\ last.out = RangeError)
        /\ (n >= 16 /\ n <= 65536 /\ ~PowerOfTwoInRange(n)) =>
             (last.err /\ last.out = Pow2Error)
        /\ RangeError # Pow2Error

\* NewReg has accepted the buffer of 65536 registers.
C9_Witness ==
  /\ last.op = "NewReg" /\ ~last.err /\ last.arg.len = 65536
  /\ hll[last.s].p = 16 /\ hll[last.s].m = 65536

====
